---- MODULE Spec2Model ----
(***************************************************************************)
(* Model of steam_monitor.py: the log scanner parse_logs and the polling   *)
(* loop main.                                                              *)
(*                                                                         *)
(* A log line is a sequence of tokens (the pieces the regular expressions  *)
(* of parse_logs look at), separated by single blanks:                     *)
(*   W(s)    a word s                       Br(n)   "[n]"                  *)
(*   Pc(n)   "n%"                           Dec(n)  the decimal n/100      *)
(*   Un(s)   "s/sec"                                                       *)
(* Speeds are integers: a value captured from the log is in hundredths     *)
(* (3.50 is 350), the accumulator speed_mbps is in units of 1/102400 MB/s  *)
(* (so that /1024 is exact) and the speed of a returned snapshot is in     *)
(* hundredths of MB/s, as round(speed_mbps, 2) leaves it.                  *)
(***************************************************************************)
EXTENDS Integers, Sequences, FiniteSets, TLC

\* ------------------------------------------------------------------ bounds
MaxLen == 3        \* longest log file (in lines) handed to parse_logs
MaxLogLen == 1     \* longest log file (in lines) during a run of main
MaxAlt == 1        \* longest replacement for the lines older than the stop

\* ------------------------------------------------------- program constants
WindowSize == 100  \* readlines()[-100:]
NumCycles == 5     \* range(5)

\* ------------------------------------------------------------------ tokens
W(s) == [k |-> "w", s |-> s, n |-> 0]
Br(n) == [k |-> "br", s |-> "", n |-> n]
Pc(n) == [k |-> "pc", s |-> "", n |-> n]
Dec(n) == [k |-> "dec", s |-> "", n |-> n]
Un(s) == [k |-> "un", s |-> s, n |-> 0]

\* The log lines of the model.  Every value Dec(n) below followed by a
\* kilobyte unit is one whose quotient by 1024 is not a non-dyadic tie of the
\* rounding to two decimals (there the direction depends on the float error).
LnGameA == <<Br(100), W("GameA")>>
LnGameB == <<Br(200), W("GameB")>>
LnDl42 == <<W("Downloading"), Pc(42), W("..."), Dec(350), Un("MB")>>
LnDl10 == <<W("Downloading"), Pc(10), W("..."), Dec(50000), Un("KB")>>
LnDl99 == <<W("Downloading"), Pc(99), W("..."), Dec(100), Un("GB")>>
LnDl250 == <<W("Downloading"), Pc(250), W("..."), Dec(12800), Un("kb")>>
LnDl7 == <<W("Downloading"), Pc(7), Dec(200), Un("B")>>
LnPaused == <<W("paused")>>
LnDownloaded == <<W("Downloaded")>>
LnIdPausedDl == <<Br(300), W("Downloading"), Pc(5), W("PAUSED"), Dec(150), Un("MB")>>
LnFullyPaused == <<W("fully"), W("downloaded"), W("Pause")>>

Lines ==
    { LnGameA, LnGameB, LnDl42, LnDl10, LnDl99, LnDl250, LnDl7, LnPaused,
      LnDownloaded, LnIdPausedDl, LnFullyPaused }

Files(n) == UNION { [1..m -> Lines] : m \in 0..n }

\* ------------------------------------------------------ regular expressions
\* str.lower() and re.IGNORECASE, on the words of the model
Lower(s) ==
    CASE s = "PAUSED" -> "paused"
      [] s = "Pause" -> "pause"
      [] s = "Downloaded" -> "downloaded"
      [] s = "Downloading" -> "downloading"
      [] s = "KB" -> "kb"
      [] s = "MB" -> "mb"
      [] s = "GB" -> "gb"
      [] s = "B" -> "b"
      [] OTHER -> s

MinOf(S) == CHOOSE x \in S : \A y \in S : x <= y

\* game_name_pattern = r'\[(\d+)\]\s*(.+)': "[n]" with something after it
GameNameStarts(line) ==
    { p \in 1..Len(line) : line[p].k = "br" /\ p < Len(line) }

MatchGameName(line) == GameNameStarts(line) # {}

GameNameAppid(line) == line[MinOf(GameNameStarts(line))].n

\* pause_pattern = r'paused|pause', re.IGNORECASE
MatchPause(line) ==
    \E p \in 1..Len(line) :
        line[p].k = "w" /\ Lower(line[p].s) \in {"pause", "paused"}

\* complete_pattern = r'Downloaded|fully downloaded', re.IGNORECASE
MatchComplete(line) ==
    \E p \in 1..Len(line) :
        line[p].k = "w" /\ Lower(line[p].s) = "downloaded"

\* download_pattern = r'Downloading (\d+)%.*?(\d+\.\d+) (\w+)/sec', case-sensitive
DownloadSpeedAt(line, p) ==
    { q \in (p + 2)..(Len(line) - 1) :
        line[q].k = "dec" /\ line[q + 1].k = "un" }

DownloadStarts(line) ==
    { p \in 1..(Len(line) - 1) :
        /\ line[p].k = "w" /\ line[p].s = "Downloading"
        /\ line[p + 1].k = "pc"
        /\ DownloadSpeedAt(line, p) # {} }

MatchDownload(line) == DownloadStarts(line) # {}

DownloadGroups(line) ==
    LET p == MinOf(DownloadStarts(line))
        q == MinOf(DownloadSpeedAt(line, p))
    IN  [pct |-> line[p + 1].n, speed |-> line[q].n, unit |-> line[q + 1].s]

\* ------------------------------------------------------------------ values
NoGame == [label |-> "None", appid |-> 0]
UnknownGame == [label |-> "Unknown", appid |-> 0]
GameLabel(appid) == [label |-> "Game", appid |-> appid]

StatusIdle == [kind |-> "Idle", pct |-> 0]
StatusPaused == [kind |-> "Paused", pct |-> 0]
StatusCompleted == [kind |-> "Completed", pct |-> 0]
StatusDownloading(progress) == [kind |-> "Downloading", pct |-> progress]

NoneResult ==
    [isNone |-> TRUE, game |-> UnknownGame, status |-> StatusIdle,
     speed_mbps |-> 0, progress |-> 0]

\* ------------------------------------------------------------- parse_logs
\* faulty variant of ConvertSpeed: kilobytes taken over without the division
ConvertSpeedKbAsMb(speed, unit) ==
    CASE Lower(unit) = "kb" -> speed * 1024
      [] Lower(unit) = "mb" -> speed * 1024
      [] Lower(unit) = "gb" -> speed * 1024 * 1024
      [] OTHER -> 0

\* lines 79-87: the speed in units of 1/102400 MB/s
ConvertSpeed(speed, unit) ==
    CASE Lower(unit) = "kb" -> speed
      [] Lower(unit) = "mb" -> speed * 1024
      [] Lower(unit) = "gb" -> speed * 1024 * 1024
      [] OTHER -> 0

\* round(speed_mbps, 2): hundredths of MB/s, ties to even
Round2(x) ==
    LET q == x \div 1024
        r == x % 1024
    IN  IF r < 512 THEN q
        ELSE IF r > 512 THEN q + 1
        ELSE IF q % 2 = 0 THEN q ELSE q + 1

InitAcc ==
    [current_game |-> NoGame, status |-> StatusIdle, speed_mbps |-> 0,
     progress |-> 0]

IdentRule(acc, line) ==
    IF acc.current_game = NoGame /\ MatchGameName(line)
    THEN [acc EXCEPT !.current_game = GameLabel(GameNameAppid(line))]
    ELSE acc

PauseRule(acc, line) ==
    IF MatchPause(line)
    THEN [acc EXCEPT !.status = StatusPaused, !.speed_mbps = 0]
    ELSE acc

CompleteRule(acc, line) ==
    IF MatchComplete(line)
    THEN [acc EXCEPT !.status = StatusCompleted, !.speed_mbps = 0]
    ELSE acc

DownloadFires(acc, line) == MatchDownload(line) /\ acc.status # StatusPaused

\* faulty variant of DownloadRule: the status is not set
DownloadRuleNoStatus(acc, line) ==
    LET g == DownloadGroups(line)
    IN  [acc EXCEPT !.progress = g.pct,
                    !.speed_mbps = ConvertSpeed(g.speed, g.unit)]

\* faulty variant of DownloadRule: the percentage goes into the status only
DownloadRuleNoProgress(acc, line) ==
    LET g == DownloadGroups(line)
    IN  [acc EXCEPT !.speed_mbps = ConvertSpeed(g.speed, g.unit),
                    !.status = StatusDownloading(g.pct)]

\* line 75-89: the active-download rule
DownloadRule(acc, line) ==
    LET g == DownloadGroups(line)
    IN  [acc EXCEPT !.progress = g.pct,
                    !.speed_mbps = ConvertSpeed(g.speed, g.unit),
                    !.status = StatusDownloading(g.pct)]

\* faulty variant of LoopBody: no break after the active-download rule
LoopBodyNoBreak(acc, line) ==
    LET a == CompleteRule(PauseRule(IdentRule(acc, line), line), line)
    IN  IF DownloadFires(a, line)
        THEN [acc |-> DownloadRule(a, line), brk |-> FALSE]
        ELSE [acc |-> a, brk |-> FALSE]

\* one iteration of "for line in reversed(lines)"; brk: the loop was left
LoopBody(acc, line) ==
    LET a == CompleteRule(PauseRule(IdentRule(acc, line), line), line)
    IN  IF DownloadFires(a, line)
        THEN [acc |-> DownloadRule(a, line), brk |-> TRUE]
        ELSE [acc |-> a, brk |-> FALSE]

\* faulty variant of MakeInfo: current_game returned without the "or" default
MakeInfoNoDefault(acc) ==
    [isNone |-> FALSE,
     game |-> acc.current_game,
     status |-> acc.status,
     speed_mbps |-> Round2(acc.speed_mbps),
     progress |-> acc.progress]

\* lines 92-97: the dictionary returned
MakeInfo(acc) ==
    [isNone |-> FALSE,
     game |-> IF acc.current_game = NoGame THEN UnknownGame ELSE acc.current_game,
     status |-> acc.status,
     speed_mbps |-> Round2(acc.speed_mbps),
     progress |-> acc.progress]

\* f.readlines()[-100:]
Window(file) ==
    SubSeq(file, IF Len(file) > WindowSize THEN Len(file) - WindowSize + 1 ELSE 1,
           Len(file))

\* the whole loop, from line j of w down to line 1
RECURSIVE ScanFrom(_, _, _)
ScanFrom(w, j, acc) ==
    IF j = 0 THEN acc
    ELSE LET r == LoopBody(acc, w[j])
         IN  IF r.brk THEN r.acc ELSE ScanFrom(w, j - 1, r.acc)

\* parse_logs on a readable file
ParseLogs(file) ==
    LET w == Window(file) IN MakeInfo(ScanFrom(w, Len(w), InitAcc))

\* ------------------------------------------------------------------- state
VARIABLES
    pc,            \* where main (and parse_logs under it) stands
    steamFound,    \* whether get_steam_path finds an installation
    logState,      \* the log file: "missing", "unreadable" or "ok"
    logFile,       \* the lines of the log file
    i,             \* the loop variable of main
    lines,         \* parse_logs: the window read
    k,             \* parse_logs: the line of the window the loop stands on
    acc,           \* parse_logs: current_game, status, speed_mbps, progress
    info,          \* what parse_logs returned
    report         \* what main printed last

vars == <<pc, steamFound, logState, logFile, i, lines, k, acc, info, report>>

mainVars == <<steamFound, i, report>>
logVars == <<logState, logFile>>
scanVars == <<lines, k, acc>>

\* ------------------------------------------------------ parse_logs, by step
\* faulty variant of ParseUnavailable: the failure to read is not caught in
\* parse_logs and reaches the handler of main
ParseUnavailableRaises ==
    /\ pc = "poll"
    /\ logState # "ok"
    /\ report' = "Error"
    /\ pc' = "done"
    /\ UNCHANGED <<steamFound, i, logVars, scanVars, info>>

\* lines 30-38: the file is missing or cannot be read
ParseUnavailable ==
    /\ pc = "poll"
    /\ logState # "ok"
    /\ info' = NoneResult
    /\ pc' = "report"
    /\ UNCHANGED <<mainVars, logVars, scanVars>>

\* lines 30-43: the window is read and the accumulators set
ParseEnter ==
    /\ pc = "poll"
    /\ logState = "ok"
    /\ lines' = Window(logFile)
    /\ k' = Len(Window(logFile))
    /\ acc' = InitAcc
    /\ pc' = "scan"
    /\ UNCHANGED <<mainVars, logVars, info>>

\* lines 53-90: one line of the window
ScanStep ==
    /\ pc = "scan"
    /\ k >= 1
    /\ LET r == LoopBody(acc, lines[k])
       IN  /\ acc' = r.acc
           /\ IF r.brk
              THEN pc' = "return" /\ k' = k
              ELSE pc' = "scan" /\ k' = k - 1
    /\ UNCHANGED <<mainVars, logVars, lines, info>>

\* line 53: the window is exhausted
ScanEnd ==
    /\ pc = "scan"
    /\ k = 0
    /\ pc' = "return"
    /\ UNCHANGED <<mainVars, logVars, scanVars, info>>

\* lines 92-97
ParseReturn ==
    /\ pc = "return"
    /\ info' = MakeInfo(acc)
    /\ pc' = "report"
    /\ UNCHANGED <<mainVars, logVars, scanVars>>

ParseNext == ParseUnavailable \/ ParseEnter \/ ScanStep \/ ScanEnd \/ ParseReturn

\* parse_logs called on any log file
ParseInit ==
    /\ pc = "poll"
    /\ steamFound = TRUE
    /\ logState \in {"missing", "unreadable", "ok"}
    /\ logFile \in Files(MaxLen)
    /\ (logState = "missing" => logFile = <<>>)
    /\ i = 0
    /\ lines = <<>>
    /\ k = 0
    /\ acc = InitAcc
    /\ info = NoneResult
    /\ report = "none"

SpecParse == ParseInit /\ [][ParseNext]_vars

\* ---------------------------------------------------------------------- main
\* lines 104-105, 141-143: get_steam_path raises, main prints the error
LocateFail ==
    /\ pc = "start"
    /\ ~steamFound
    /\ report' = "Error"
    /\ pc' = "done"
    /\ UNCHANGED <<steamFound, i, logVars, scanVars, info>>

\* lines 105-106: the installation is found
LocateOk ==
    /\ pc = "start"
    /\ steamFound
    /\ pc' = "check"
    /\ UNCHANGED <<mainVars, logVars, scanVars, info>>

\* lines 108-111: no log file, main returns
CheckLogMissing ==
    /\ pc = "check"
    /\ logState = "missing"
    /\ report' = "LogNotFound"
    /\ pc' = "done"
    /\ UNCHANGED <<steamFound, i, logVars, scanVars, info>>

\* lines 108-118: the log file exists, the loop starts with i = 0
CheckLogExists ==
    /\ pc = "check"
    /\ logState # "missing"
    /\ i' = 0
    /\ pc' = "poll"
    /\ UNCHANGED <<steamFound, report, logVars, scanVars, info>>

\* lines 120-133: what main prints for the cycle
ReportOf(res) ==
    IF res.isNone THEN "Unreadable"
    ELSE IF res.status.kind = "Completed" THEN "Stopped"
    ELSE IF res.game = UnknownGame /\ res.speed_mbps = 0 THEN "NoActive"
    ELSE "Snapshot"

\* lines 120-139: the cycle is reported; break on Completed, else sleep
\* unless this was the last cycle (the locals of parse_logs are gone)
Report ==
    /\ pc = "report"
    /\ report' = ReportOf(info)
    /\ pc' = IF ReportOf(info) = "Stopped" \/ i >= NumCycles - 1
             THEN "done" ELSE "sleep"
    /\ lines' = <<>>
    /\ k' = 0
    /\ acc' = InitAcc
    /\ UNCHANGED <<steamFound, i, logVars, info>>

\* lines 117, 139: time.sleep(60), then the next cycle
Sleep ==
    /\ pc = "sleep"
    /\ i' = i + 1
    /\ pc' = "poll"
    /\ UNCHANGED <<steamFound, report, logVars, scanVars, info>>

\* the log file is written, removed or locked by others before a poll:
\* between the existence check and the first one, and while main sleeps
LogChange ==
    /\ pc = "poll"
    /\ logState' \in {"missing", "unreadable", "ok"}
    /\ logFile' \in Files(MaxLogLen)
    /\ (logState' # "ok" => logFile' = <<>>)
    /\ <<logState', logFile'>> # <<logState, logFile>>
    /\ UNCHANGED <<pc, mainVars, scanVars, info>>

Init ==
    /\ pc = "start"
    /\ steamFound \in BOOLEAN
    /\ logState \in {"missing", "unreadable", "ok"}
    /\ logFile \in Files(MaxLogLen)
    /\ (logState # "ok" => logFile = <<>>)
    /\ i = 0
    /\ lines = <<>>
    /\ k = 0
    /\ acc = InitAcc
    /\ info = NoneResult
    /\ report = "none"

Next ==
    \/ LocateFail
    \/ LocateOk
    \/ CheckLogMissing
    \/ CheckLogExists
    \/ ParseUnavailable
    \/ ParseEnter
    \/ ScanStep
    \/ ScanEnd
    \/ ParseReturn
    \/ Report
    \/ Sleep
    \/ LogChange

Spec == Init /\ [][Next]_vars

\* ---------------------------------------------------------- properties of main
\* C5 (as claimed): a missing or unreadable log never ends the run; of the
\* failures only the one to locate the installation ends it before its
\* cycles are done (a Completed snapshot stops it too, which is no failure).
C5_LogUnavailableNeverEndsRun ==
    (pc = "done" /\ steamFound) => (i = NumCycles - 1 \/ report = "Stopped")

\* C5 (amended): a log file missing when main starts ends the run before the
\* first poll.  Once the loop runs, at every poll at which the log is missing
\* or unreadable parse_logs returns None, main reports the cycle as
\* unreadable and goes on to the next cycle if there is one; the run ends
\* before its cycles are done only when the installation is not found, the
\* log file is missing at the start, or a snapshot is Completed.
C5_LogUnavailableAtPollContinues ==
    /\ (pc = "report" /\ logState # "ok") => info.isNone
    /\ (pc \in {"sleep", "done"} /\ report \notin {"Error", "LogNotFound"})
          => (info.isNone <=> report = "Unreadable")
    /\ (pc = "done" /\ report = "Unreadable") => i = NumCycles - 1
    /\ pc = "done" =>
          \/ i = NumCycles - 1
          \/ report = "Error" /\ ~steamFound
          \/ report = "LogNotFound" /\ steamFound /\ logState = "missing" /\ i = 0
          \/ report = "Stopped" /\ info.status = StatusCompleted
    /\ report = "Error" => ~steamFound

\* the log became unavailable at the first poll and main sleeps for the next
C5_Witness ==
    pc = "sleep" /\ i = 0 /\ report = "Unreadable" /\ logState = "missing"

\* --------------------------------------------------- properties of parse_logs
\* parse_logs has returned a snapshot (not None)
Returned == pc = "report" /\ ~info.isNone

StatusRelevant(line) == MatchPause(line) \/ MatchComplete(line) \/ MatchDownload(line)

MaxOf(S) == CHOOSE x \in S : \A y \in S : x >= y

\* the newest line of w that satisfies P, 0 if there is none
Newest(w, P(_)) ==
    LET S == { j \in 1..Len(w) : P(w[j]) } IN IF S = {} THEN 0 ELSE MaxOf(S)

OnlyPause(line) == MatchPause(line) /\ ~MatchComplete(line) /\ ~MatchDownload(line)
OnlyComplete(line) == MatchComplete(line) /\ ~MatchPause(line) /\ ~MatchDownload(line)

\* C1: when the newest status-relevant line of the window is a completion
\* line (and neither a pause nor an active-download line), the snapshot is
\* Completed with speed 0.0, whatever older lines say.
C1_NewestCompletionWins ==
    LET n == Newest(lines, StatusRelevant)
    IN  (Returned /\ n > 0 /\ OnlyComplete(lines[n]))
            => (info.status = StatusCompleted /\ info.speed_mbps = 0)

\* C2: when the newest status-relevant line of the window is a pause line,
\* the snapshot is Paused, whatever lines are older than it.
C2_NewestPauseWins ==
    LET n == Newest(lines, StatusRelevant)
    IN  (Returned /\ n > 0 /\ OnlyPause(lines[n])) => info.status = StatusPaused

\* C3: when the window holds an identifier line, the item of the snapshot
\* is the one of the most recent identifier line.
C3_MostRecentIdentifier ==
    LET n == Newest(lines, MatchGameName)
    IN  (Returned /\ n > 0) => info.game = GameLabel(GameNameAppid(lines[n]))

\* C4: in a window without active-download lines whose status-relevant lines
\* each match exactly one of the pause and completion patterns, the status is
\* the one of the newest such line.
C4_RecencyPrecedence ==
    LET n == Newest(lines, StatusRelevant)
    IN  ( /\ Returned
          /\ n > 0
          /\ \A j \in 1..Len(lines) :
                ~MatchDownload(lines[j])
                /\ ~(MatchPause(lines[j]) /\ MatchComplete(lines[j])) )
            => info.status =
                  IF MatchPause(lines[n]) THEN StatusPaused ELSE StatusCompleted

\* C6: a readable log with an empty window gives the all-default snapshot
\* (unknown item, Idle, 0.0, 0), not None.
C6_EmptyWindowDefaults ==
    (pc = "report" /\ logState = "ok" /\ Window(logFile) = <<>>)
        => info = [isNone |-> FALSE, game |-> UnknownGame, status |-> StatusIdle,
                   speed_mbps |-> 0, progress |-> 0]

C6_Witness ==
    pc = "report" /\ logState = "ok" /\ logFile = <<>> /\ ~info.isNone

\* C7: the speed of a snapshot is non-negative, and zero unless the status
\* is Downloading; without an active-download line in the window progress
\* is 0 and the status is Idle, Paused or Completed.
C7_SpeedZeroUnlessDownloading ==
    Returned =>
        /\ info.speed_mbps >= 0
        /\ (info.status.kind # "Downloading" => info.speed_mbps = 0)
        /\ (\A j \in 1..Len(lines) : ~MatchDownload(lines[j]))
              => /\ info.progress = 0
                 /\ info.status \in {StatusIdle, StatusPaused, StatusCompleted}

\* a paused snapshot from a window that holds an active-download line
C7_Witness ==
    /\ Returned
    /\ info.status = StatusPaused
    /\ \E j \in 1..Len(lines) :
          MatchDownload(lines[j]) /\ DownloadGroups(lines[j]).speed > 0

\* C8 (as claimed): progress is in 0..100 in every snapshot.
C8_ProgressInRange == Returned => info.progress \in 0..100

\* C8 (amended): progress is a natural number: 0 when the scan did not stop
\* on an active-download line, else the percentage written on the line it
\* stopped on; it is at most 100 when every active-download line of the
\* window states at most 100.
C8_ProgressIsLoggedPercent ==
    Returned =>
        /\ info.progress \in Nat
        /\ (k = 0 => info.progress = 0)
        /\ (k > 0 => info.progress = DownloadGroups(lines[k]).pct)
        /\ (\A j \in 1..Len(lines) :
               MatchDownload(lines[j]) => DownloadGroups(lines[j]).pct <= 100)
              => info.progress <= 100

C8_Witness == Returned /\ k > 0 /\ info.progress > 100

\* C9: when the active-download rule fires on a line with value V and unit
\* u, the speed of the snapshot is V/1024 (kb), V (mb), V*1024 (gb) or 0
\* (any other unit), rounded to two decimals, and status = Downloading(p),
\* progress = p.
C9_UnitConversion ==
    (Returned /\ k > 0) =>
        LET g == DownloadGroups(lines[k])
            u == Lower(g.unit)
            out == info.speed_mbps
        IN  /\ info.status = StatusDownloading(g.pct)
            /\ info.progress = g.pct
            /\ (u = "kb" => /\ 1024 * out - 512 <= g.speed
                            /\ g.speed <= 1024 * out + 512
                            /\ acc.speed_mbps = g.speed)
            /\ (u = "mb" => out = g.speed)
            /\ (u = "gb" => out = 1024 * g.speed)
            /\ (u \notin {"kb", "mb", "gb"} => out = 0)

\* 500.00 KB/sec is reported as 0.49 MB/s
C9_Witness ==
    /\ Returned
    /\ k > 0
    /\ DownloadGroups(lines[k]).unit = "KB"
    /\ DownloadGroups(lines[k]).speed = 50000
    /\ info.speed_mbps = 49

\* the status is Paused when the scan comes to the active-download rule on
\* line j: the closest line at or after j that matches the pause or the
\* completion pattern matches the pause pattern only
PausedWhenReached(w, j) ==
    \E m \in j..Len(w) :
        /\ MatchPause(w[m]) /\ ~MatchComplete(w[m])
        /\ \A n \in j..(m - 1) : ~MatchPause(w[n]) /\ ~MatchComplete(w[n])

\* C10: the scan stops early exactly on the newest active-download line that
\* it reaches while the status is not Paused (pause and completion lines do
\* not stop it); then status = Downloading(p), progress = p, and the lines
\* older than that line have no effect on the snapshot.
C10_StopsOnActiveDownload ==
    Returned =>
        LET S == { j \in 1..Len(lines) :
                     MatchDownload(lines[j]) /\ ~PausedWhenReached(lines, j) }
        IN  /\ k = (IF S = {} THEN 0 ELSE MaxOf(S))
            /\ k > 0 =>
                 /\ info.status = StatusDownloading(DownloadGroups(lines[k]).pct)
                 /\ info.progress = DownloadGroups(lines[k]).pct
                 /\ \A older \in Files(MaxAlt) :
                       ParseLogs(older \o SubSeq(lines, k, Len(lines))) = info

\* the scan went past a completion line and stopped before a pause line
C10_Witness ==
    /\ Returned
    /\ 1 < k /\ k < Len(lines)
    /\ MatchComplete(lines[k + 1])
    /\ MatchPause(lines[k - 1])

====
